---- MODULE Spec2Model ----
(***************************************************************************)
(* Model of fabfile.py: the execute_deployment task, the token lookup      *)
(* (_get_deployment_token) and the deployment controller                   *)
(* (_execute_deployment with _start_deployment / _get_deployment_status).  *)
(*                                                                         *)
(* The remote deployment API and the remote shell are the environment:     *)
(* every HTTP response (status code and body) and every token lookup       *)
(* output is a nondeterministic choice.  c.sudo is modelled as returning   *)
(* (a failing remote command is not modelled).                             *)
(***************************************************************************)
EXTENDS Integers, Sequences, FiniteSets, TLC

\* ---------------------------------------------------------------- bounds
\* Longest run of polls one controller invocation is followed for.
MaxPolls == 3
\* Scaled-down interpreter recursion limit (sys.getrecursionlimit()).
RecursionLimit == 3
\* Longest list of network policies / static files configured for one tool.
MaxItems == 2

\* ---------------------------------------------------------------- values
\* Python None, and a response body r.json()["data"][...] cannot be read from.
None == "<None>"
Malformed == "<malformed>"

\* Result of _get_target_tools(): one entry per *.yaml file.
Tools == <<"tool-a", "tool-b">>

\* Values of the TARGET_USER environment variable (unset = None).
TargetUsers == {None, "tool-a", "tool-b"}

\* Output of `deploy-token show --json | jq -r .token`, stripped.
TokenOutputs == {"", "tok"}

\* HTTP status codes the remote may answer with: 1xx, 2xx, 3xx, 4xx, 409, 5xx.
StatusCodes == {102, 200, 304, 404, 409, 500}

\* data.deploy_id of a Start response body (JSON null = None).
DeployIds == {"d1", "d2", None, Malformed}

\* data.status of a Poll response body.
StatusValues == {"pending", "running", "successful", "failed", "", "bogus", None, Malformed}

NoResponse == [code |-> 0, body |-> None]

\* Exceptions.  HTTPError carries "{status_code} Client|Server Error".
NoError == [type |-> "none", code |-> 0, kind |-> ""]
HTTPError(code, kind) == [type |-> "HTTPError", code |-> code, kind |-> kind]
\* r.json() / ["data"][...] failing: JSONDecodeError, KeyError, TypeError.
BodyError == [type |-> "BodyError", code |-> 0, kind |-> ""]
RecursionError == [type |-> "RecursionError", code |-> 0, kind |-> ""]

\* Python truthiness of an Optional[str].
Truthy(s) == s /= None /\ s /= ""

VARIABLES
    TARGET_USER,        \* module global read from the environment
    force_run,          \* task arguments
    force_build,
    pc,                 \* position of the single thread of control
    i,                  \* index of the for loop over _get_target_tools()
    depth,              \* recursion depth of _get_deployment_token
    creates,            \* deploy-token create commands run for this tool
    deploy_token,       \* local of execute_deployment
    deploy_id,          \* local of _execute_deployment
    deployment_status,  \* local of _execute_deployment
    start_r,            \* response of the POST of this invocation
    poll_r,             \* response of the latest GET of this invocation
    startCalls,         \* POST requests issued by this invocation
    pollCalls,          \* GET requests issued by this invocation
    statuses,           \* values returned by _get_deployment_status so far
    sleeps,             \* time.sleep(1) calls of this invocation
    ret,                \* return value of _execute_deployment
    printed,            \* messages printed for this tool
    raised,             \* exception that left the task
    exit_code,          \* process exit status
    result              \* per tool: what its deployment attempt ended with

vars == <<TARGET_USER, force_run, force_build, pc, i, depth, creates,
          deploy_token, deploy_id, deployment_status, start_r, poll_r,
          startCalls, pollCalls, statuses, sleeps, ret, printed, raised,
          exit_code, result>>

\* State of the tasks other than execute_deployment (deploy and its stages).
VARIABLES
    task,               \* the fabric task that was invoked
    started,            \* task functions entered so far, in order
    stage_pc,           \* position inside the running task function
    tool_idx,           \* index of its for loop over _get_target_tools()
    config_entries,     \* YAML entries configured for the current tool
    tool_items,         \* objects built from them (from_values)
    item_idx,           \* index of the inner for loop over tool_items
    is_success,         \* local of update_network_policies / update_static_files
    attempts,           \* kubectl / file-write commands run for this tool
    failed_tools,       \* <<task function, tool>> printed as "Deployment failed"
    task_raised,        \* an exception left the task
    task_exit           \* process exit status

stageVars == <<task, started, stage_pc, tool_idx, config_entries, tool_items,
               item_idx, is_success, attempts, failed_tools, task_raised,
               task_exit>>

allVars == <<vars, stageVars>>

inputs == <<TARGET_USER, force_run, force_build>>
perTool == <<depth, creates, deploy_token, deploy_id, deployment_status,
             start_r, poll_r, startCalls, pollCalls, statuses, sleeps, ret,
             printed>>
calls == <<startCalls, pollCalls>>

NumTools == Len(Tools)
tool_name == IF i \in 1..NumTools THEN Tools[i] ELSE None

\* ------------------------------------------------------- pure functions
\* Variant: the 5xx branch is missing.
raise_for_status_client_only(response) ==
    IF 400 <= response.code /\ response.code < 500
    THEN HTTPError(response.code, "Client Error")
    ELSE NoError

raise_for_status_with_no_url(response) ==
    IF 400 <= response.code /\ response.code < 500
    THEN HTTPError(response.code, "Client Error")
    ELSE IF 500 <= response.code /\ response.code < 600
    THEN HTTPError(response.code, "Server Error")
    ELSE NoError

\* _start_deployment after the POST: raise, or return data.deploy_id.
start_deployment(r) ==
    LET e == raise_for_status_with_no_url(r) IN
    IF e /= NoError THEN [raised |-> e, value |-> None]
    ELSE IF r.body = Malformed THEN [raised |-> BodyError, value |-> None]
    ELSE [raised |-> NoError, value |-> r.body]

\* Variant: no special case for 409, as in _start_deployment.
get_deployment_status_no_409(r) ==
    LET e == raise_for_status_with_no_url(r) IN
    IF e /= NoError THEN [raised |-> e, value |-> None, printed |-> {}]
    ELSE IF r.body = Malformed
    THEN [raised |-> BodyError, value |-> None, printed |-> {}]
    ELSE [raised |-> NoError, value |-> r.body, printed |-> {}]

\* _get_deployment_status after the GET: 409 prints and returns None,
\* otherwise raise or return data.status.
get_deployment_status(r) ==
    IF r.code = 409
    THEN [raised |-> NoError, value |-> None, printed |-> {"already in progress"}]
    ELSE LET e == raise_for_status_with_no_url(r) IN
         IF e /= NoError THEN [raised |-> e, value |-> None, printed |-> {}]
         ELSE IF r.body = Malformed
         THEN [raised |-> BodyError, value |-> None, printed |-> {}]
         ELSE [raised |-> NoError, value |-> r.body, printed |-> {}]

\* Variant: only "pending" keeps the loop going.
loop_body_pending_only(status) ==
    IF status = "successful" THEN "return True"
    ELSE IF status \in {"pending"} THEN "sleep"
    ELSE "return False"

\* Variant: success is "not failed" instead of "successful".
loop_body_not_failed(status) ==
    IF status \in {"pending", "running"} THEN "sleep"
    ELSE IF status /= "failed" THEN "return True"
    ELSE "return False"

\* Variant: an unrecognised status keeps the loop going.
loop_body_unknown_waits(status) ==
    IF status = "successful" THEN "return True"
    ELSE IF status = "failed" THEN "return False"
    ELSE "sleep"

\* Body of the while loop of _execute_deployment, after the status is known.
loop_body(status) ==
    IF status = "successful" THEN "return True"
    ELSE IF status \in {"pending", "running"} THEN "sleep"
    ELSE "return False"

\* The filter of the for loop of every task.
selected(tool) == TARGET_USER = None \/ tool = TARGET_USER

start_request(tool, token, fr, fb) ==
    [tool |-> tool, deploy_id |-> None, token |-> token,
     force_run |-> fr, force_build |-> fb]

\* Variant: deploy_id and deploy_token passed in each other's place.
status_request_swapped(tool, id, token) ==
    [tool |-> tool, deploy_id |-> token, token |-> id,
     force_run |-> FALSE, force_build |-> FALSE]

status_request(tool, id, token) ==
    [tool |-> tool, deploy_id |-> id, token |-> token,
     force_run |-> FALSE, force_build |-> FALSE]

\* ---------------------------------------------------------------- Init
Init ==
    /\ TARGET_USER \in TargetUsers
    /\ force_run \in BOOLEAN
    /\ force_build \in BOOLEAN
    /\ pc = "loop"
    /\ i = 1
    /\ depth = 0
    /\ creates = 0
    /\ deploy_token = None
    /\ deploy_id = None
    /\ deployment_status = None
    /\ start_r = NoResponse
    /\ poll_r = NoResponse
    /\ startCalls = <<>>
    /\ pollCalls = <<>>
    /\ statuses = <<>>
    /\ sleeps = 0
    /\ ret = "none"
    /\ printed = {}
    /\ raised = NoError
    /\ exit_code = -1
    /\ result = [t \in {Tools[k] : k \in 1..NumTools} |-> "not run"]
    /\ task = "execute_deployment"
    /\ started = <<"execute_deployment">>
    /\ stage_pc = "loop"
    /\ tool_idx = 1
    /\ config_entries = <<>>
    /\ tool_items = <<>>
    /\ item_idx = 1
    /\ is_success = TRUE
    /\ attempts = <<>>
    /\ failed_tools = {}
    /\ task_raised = FALSE
    /\ task_exit = -1

\* An exception nobody catches leaves the task: the process ends non-zero.
Uncaught(e) ==
    /\ raised' = e
    /\ exit_code' = 1
    /\ pc' = "exited"
    /\ result' = [result EXCEPT ![tool_name] = "raised"]

\* ------------------------------------------------------------- actions
\* for tool_name in _get_target_tools(): if TARGET_USER is None or ... ;
\* the locals of the iteration start fresh.  Falling off the loop ends the
\* task with exit status 0.
NextTool ==
    /\ pc = "loop"
    /\ IF i > NumTools
       THEN /\ pc' = "exited"
            /\ exit_code' = 0
            /\ UNCHANGED <<i, perTool>>
       ELSE /\ exit_code' = exit_code
            /\ depth' = IF selected(Tools[i]) THEN 1 ELSE 0
            /\ creates' = 0
            /\ deploy_token' = None
            /\ deploy_id' = None
            /\ deployment_status' = None
            /\ start_r' = NoResponse
            /\ poll_r' = NoResponse
            /\ startCalls' = <<>>
            /\ pollCalls' = <<>>
            /\ statuses' = <<>>
            /\ sleeps' = 0
            /\ ret' = "none"
            /\ printed' = {}
            /\ IF selected(Tools[i])
               THEN /\ pc' = "show"
                    /\ i' = i
               ELSE /\ pc' = "loop"
                    /\ i' = i + 1
    /\ UNCHANGED <<stageVars, inputs, raised, result>>

\* _get_deployment_token: run `deploy-token show`; a non-empty output is
\* returned through every recursion level to execute_deployment, whose
\* `if deploy_token := ...` guard then calls _execute_deployment (or, for a
\* falsy token, goes to the next tool).
ShowToken ==
    /\ pc = "show"
    /\ \E out \in TokenOutputs :
        IF out = ""
        THEN /\ printed' = printed \cup {"Creating deploy-token"}
             /\ pc' = "create"
             /\ UNCHANGED <<deploy_token, i>>
        ELSE /\ deploy_token' = out
             /\ printed' = printed
             /\ IF Truthy(out)
                THEN pc' = "start" /\ i' = i
                ELSE pc' = "loop" /\ i' = i + 1
    /\ UNCHANGED <<stageVars, inputs, depth, creates, deploy_id, deployment_status,
                   start_r, poll_r, startCalls, pollCalls, statuses, sleeps,
                   ret, raised, exit_code, result>>

\* _get_deployment_token, empty output: run `deploy-token create`, then
\* `return _get_deployment_token(c, tool_name)`.  The recursion has no base
\* case of its own; the interpreter ends it with RecursionError.
CreateToken ==
    /\ pc = "create"
    /\ creates' = creates + 1
    /\ IF depth + 1 > RecursionLimit
       THEN /\ Uncaught(RecursionError)
            /\ depth' = depth
       ELSE /\ depth' = depth + 1
            /\ pc' = "show"
            /\ UNCHANGED <<raised, exit_code, result>>
    /\ UNCHANGED <<stageVars, inputs, i, deploy_token, deploy_id, deployment_status,
                   start_r, poll_r, startCalls, pollCalls, statuses, sleeps,
                   ret, printed>>

\* _execute_deployment, first two statements: the POST, then
\* `if deploy_id is None: return False`, then print "Started deployment".
StartDeployment ==
    /\ pc = "start"
    /\ \E code \in StatusCodes, body \in DeployIds :
        LET r == [code |-> code, body |-> body]
            res == start_deployment(r) IN
        /\ start_r' = r
        /\ startCalls' = Append(startCalls,
               start_request(tool_name, deploy_token, force_run, force_build))
        /\ IF res.raised /= NoError
           THEN /\ Uncaught(res.raised)
                /\ UNCHANGED <<deploy_id, ret, printed>>
           ELSE /\ deploy_id' = res.value
                /\ UNCHANGED <<raised, exit_code, result>>
                /\ IF res.value = None
                   THEN /\ ret' = "False"
                        /\ pc' = "returned"
                        /\ printed' = printed
                   ELSE /\ ret' = ret
                        /\ pc' = "poll"
                        /\ printed' = printed \cup {"Started deployment"}
    /\ UNCHANGED <<stageVars, inputs, i, depth, creates, deploy_token, deployment_status,
                   poll_r, pollCalls, statuses, sleeps>>

\* deployment_status = _get_deployment_status(tool_name, deploy_id, deploy_token)
PollStatus ==
    /\ pc = "poll"
    /\ Len(pollCalls) < MaxPolls
    /\ \E code \in StatusCodes, body \in StatusValues :
        LET r == [code |-> code, body |-> body]
            res == get_deployment_status(r) IN
        /\ poll_r' = r
        /\ pollCalls' = Append(pollCalls,
               status_request(tool_name, deploy_id, deploy_token))
        /\ printed' = printed \cup res.printed
        /\ IF res.raised /= NoError
           THEN /\ Uncaught(res.raised)
                /\ UNCHANGED <<deployment_status, statuses>>
           ELSE /\ deployment_status' = res.value
                /\ statuses' = Append(statuses, res.value)
                /\ pc' = "status"
                /\ UNCHANGED <<raised, exit_code, result>>
    /\ UNCHANGED <<stageVars, inputs, i, depth, creates, deploy_token, deploy_id,
                   start_r, startCalls, sleeps, ret>>

\* The three tests on deployment_status in the while loop.
CheckStatus ==
    /\ pc = "status"
    /\ LET b == loop_body(deployment_status) IN
        IF b = "return True"
        THEN /\ ret' = "True"
             /\ pc' = "returned"
             /\ printed' = printed \cup {"finished successfully"}
        ELSE IF b = "sleep"
        THEN /\ ret' = ret
             /\ pc' = "sleep"
             /\ printed' = printed \cup {"pending or in progress"}
        ELSE /\ ret' = "False"
             /\ pc' = "returned"
             /\ printed' = printed \cup {"probably failed"}
    /\ UNCHANGED <<stageVars, inputs, i, depth, creates, deploy_token, deploy_id,
                   deployment_status, start_r, poll_r, startCalls, pollCalls,
                   statuses, sleeps, raised, exit_code, result>>

\* Variant: the loop gives up after its second sleep.
Sleep_bounded ==
    /\ pc = "sleep"
    /\ sleeps' = sleeps + 1
    /\ IF sleeps >= 1
       THEN pc' = "returned" /\ ret' = "False"
       ELSE pc' = "poll" /\ ret' = ret
    /\ UNCHANGED <<stageVars, inputs, i, depth, creates, deploy_token, deploy_id,
                   deployment_status, start_r, poll_r, startCalls, pollCalls,
                   statuses, printed, raised, exit_code, result>>

\* time.sleep(1); continue
Sleep ==
    /\ pc = "sleep"
    /\ sleeps' = sleeps + 1
    /\ pc' = "poll"
    /\ UNCHANGED <<stageVars, inputs, i, depth, creates, deploy_token, deploy_id,
                   deployment_status, start_r, poll_r, startCalls, pollCalls,
                   statuses, ret, printed, raised, exit_code, result>>

\* execute_deployment after _execute_deployment returned:
\* if not ...: print "Deployment failed"; if TARGET_USER: sys.exit(1)
DriverReturn ==
    /\ pc = "returned"
    /\ result' = [result EXCEPT ![tool_name] = ret]
    /\ IF ret = "True"
       THEN /\ pc' = "loop"
            /\ i' = i + 1
            /\ UNCHANGED <<printed, exit_code>>
       ELSE /\ printed' = printed \cup {"Deployment failed"}
            /\ IF Truthy(TARGET_USER)
               THEN /\ pc' = "exited"
                    /\ exit_code' = 1
                    /\ i' = i
               ELSE /\ pc' = "loop"
                    /\ exit_code' = exit_code
                    /\ i' = i + 1
    /\ UNCHANGED <<stageVars, inputs, depth, creates, deploy_token, deploy_id,
                   deployment_status, start_r, poll_r, startCalls, pollCalls,
                   statuses, sleeps, ret, raised>>

Next ==
    \/ NextTool
    \/ ShowToken
    \/ CreateToken
    \/ StartDeployment
    \/ PollStatus
    \/ CheckStatus
    \/ Sleep
    \/ DriverReturn

Spec == Init /\ [][Next]_vars

\* The task is one sequential thread: whatever statement is next, runs.
FairSpec == Spec /\ WF_vars(Next)

TypeOK ==
    /\ pc \in {"loop", "show", "create", "start", "poll", "status", "sleep",
               "returned", "exited"}
    /\ i \in 1..(NumTools + 1)
    /\ depth \in 0..RecursionLimit
    /\ Len(pollCalls) <= MaxPolls
    /\ ret \in {"none", "True", "False"}
    /\ exit_code \in {-1, 0, 1}

\* ============================================================ deploy
\* The deploy task and the task functions it calls.  execute_deployment is
\* taken here by its result per tool (modelled step by step above); the
\* configuration files are read as the environment provides them.

\* Variant: the deployment is executed before the component config is written.
deploy_stages_swapped ==
    <<"update_network_policies", "execute_deployment",
      "update_component_config", "update_webservice", "update_static_files">>

\* The calls in the body of deploy, in order.
deploy_stages ==
    <<"update_network_policies", "update_component_config",
      "execute_deployment", "update_webservice", "update_static_files">>

\* Tasks the stage model is started with.
TaskNames == {"deploy", "update_network_policies"}

StagesOf(t) == IF t = "deploy" THEN deploy_stages ELSE <<t>>

\* The task function that is running.
current == IF started = <<>> THEN None ELSE started[Len(started)]

\* `delete` key of a network-policy entry: missing, true or false.
DeleteFlags == {"absent", "true", "false"}

\* Entries of one config/network-policies/<tool>.yaml (none = no file).
NetworkPolicyConfigs ==
    UNION { { [m \in 1..n |-> [name |-> m, delete |-> f[m]]] :
                f \in [1..n -> DeleteFlags] } : n \in 0..MaxItems }

\* Entries of one config/static-files/<tool>.yaml.
StaticFileConfigs ==
    { [m \in 1..n |-> [name |-> m, delete |-> "absent"]] : n \in 0..MaxItems }

\* `ret.exited` of a remote command, and the stderr of `kubectl delete`.
ExitStatuses == {0, 1}
DeleteStderrs == {"", "Error from server (NotFound)", "error"}

\* NetworkPolicy.from_values: should_delete = data.get("delete", False).
NetworkPolicy_from_values(data) ==
    [k8s_type |-> "NetworkPolicy", name |-> data.name,
     has_delete |-> TRUE, delete |-> (data.delete = "true")]

\* WebServiceConfig has no `delete` attribute.
WebServiceConfig_from_values(tool) ==
    [k8s_type |-> "Ingress", name |-> 0, has_delete |-> FALSE, delete |-> FALSE]

StaticFile_from_values(data) ==
    [k8s_type |-> "StaticFile", name |-> data.name,
     has_delete |-> FALSE, delete |-> FALSE]

apply_kubernetes_object(exited) == exited = 0

delete_kubernetes_object(stderr) ==
    ~(stderr /= "" /\ stderr /= "Error from server (NotFound)")

\* Variant: the object is applied whatever its delete flag says.
ensure_kubernetes_object_always_apply(obj, exited, stderr) ==
    [op |-> "apply", name |-> obj.name, ok |-> apply_kubernetes_object(exited)]

ensure_kubernetes_object(obj, exited, stderr) ==
    IF obj.has_delete /\ obj.delete
    THEN [op |-> "delete", name |-> obj.name,
          ok |-> delete_kubernetes_object(stderr)]
    ELSE [op |-> "apply", name |-> obj.name,
          ok |-> apply_kubernetes_object(exited)]

ensure_static_file(obj, exited) ==
    [op |-> "write", name |-> obj.name, ok |-> (exited = 0)]

\* What _execute_deployment ends with for one tool.
ExecuteDeploymentResults == {"True", "False", "raised"}

DeployInit ==
    /\ TARGET_USER \in TargetUsers
    /\ task \in TaskNames
    /\ started = <<>>
    /\ stage_pc = "call"
    /\ tool_idx = 1
    /\ config_entries = <<>>
    /\ tool_items = <<>>
    /\ item_idx = 1
    /\ is_success = TRUE
    /\ attempts = <<>>
    /\ failed_tools = {}
    /\ task_raised = FALSE
    /\ task_exit = -1
    /\ force_run = FALSE
    /\ force_build = FALSE
    /\ pc = "loop"
    /\ i = 1
    /\ depth = 0
    /\ creates = 0
    /\ deploy_token = None
    /\ deploy_id = None
    /\ deployment_status = None
    /\ start_r = NoResponse
    /\ poll_r = NoResponse
    /\ startCalls = <<>>
    /\ pollCalls = <<>>
    /\ statuses = <<>>
    /\ sleeps = 0
    /\ ret = "none"
    /\ printed = {}
    /\ raised = NoError
    /\ exit_code = -1
    /\ result = [t \in {Tools[k] : k \in 1..NumTools} |-> "not run"]

\* The next iteration of the for loop over the tools starts.
NextIteration ==
    /\ stage_pc' = "loop"
    /\ tool_idx' = tool_idx + 1

\* print("Deployment failed for ..."); if TARGET_USER: sys.exit(1)
ReportFailure ==
    /\ failed_tools' = failed_tools \cup {<<current, Tools[tool_idx]>>}
    /\ IF Truthy(TARGET_USER)
       THEN /\ stage_pc' = "done"
            /\ task_exit' = 1
            /\ tool_idx' = tool_idx
       ELSE /\ NextIteration
            /\ task_exit' = task_exit

\* The task calls its next function; after the last one it ends with 0.
CallNext ==
    /\ stage_pc = "call"
    /\ IF Len(started) = Len(StagesOf(task))
       THEN /\ stage_pc' = "done"
            /\ task_exit' = 0
            /\ UNCHANGED <<started, tool_idx>>
       ELSE /\ started' = Append(started, StagesOf(task)[Len(started) + 1])
            /\ stage_pc' = "loop"
            /\ tool_idx' = 1
            /\ task_exit' = task_exit
    /\ UNCHANGED <<vars, task, config_entries, tool_items, item_idx,
                   is_success, attempts, failed_tools, task_raised>>

\* update_network_policies, outer loop: filter, look the tool's policies up,
\* is_success = True.
NetworkPoliciesTool ==
    /\ stage_pc = "loop"
    /\ current = "update_network_policies"
    /\ IF tool_idx > NumTools
       THEN /\ stage_pc' = "call"
            /\ UNCHANGED <<tool_idx, config_entries, tool_items, item_idx,
                           is_success, attempts>>
       ELSE IF ~selected(Tools[tool_idx])
       THEN /\ NextIteration
            /\ UNCHANGED <<config_entries, tool_items, item_idx, is_success,
                           attempts>>
       ELSE \E entries \in NetworkPolicyConfigs :
            /\ config_entries' = entries
            /\ tool_items' = [m \in 1..Len(entries) |->
                                NetworkPolicy_from_values(entries[m])]
            /\ attempts' = <<>>
            /\ item_idx' = 1
            /\ is_success' = TRUE
            /\ IF Len(entries) > 0
               THEN stage_pc' = "policies" /\ tool_idx' = tool_idx
               ELSE NextIteration
    /\ UNCHANGED <<vars, task, started, failed_tools, task_raised, task_exit>>

\* is_success &= _ensure_kubernetes_object(c, tool_name, network_policy)
NetworkPoliciesEnsure ==
    /\ stage_pc = "policies"
    /\ item_idx <= Len(tool_items)
    /\ \E exited \in ExitStatuses, stderr \in DeleteStderrs :
        LET a == ensure_kubernetes_object(tool_items[item_idx], exited, stderr) IN
        /\ attempts' = Append(attempts, a)
        /\ is_success' = (is_success /\ a.ok)
        /\ item_idx' = item_idx + 1
    /\ UNCHANGED <<vars, task, started, stage_pc, tool_idx, config_entries,
                   tool_items, failed_tools, task_raised, task_exit>>

\* update_network_policies after the inner loop: if not is_success: ...
NetworkPoliciesReport ==
    /\ stage_pc = "policies"
    /\ item_idx > Len(tool_items)
    /\ IF ~is_success
       THEN ReportFailure
       ELSE NextIteration /\ UNCHANGED <<failed_tools, task_exit>>
    /\ UNCHANGED <<vars, task, started, config_entries, tool_items, item_idx,
                   is_success, attempts, task_raised>>

\* update_component_config: _setup_component_configs for every selected
\* tool; nothing is tested and nothing is reported.
ComponentConfigTool ==
    /\ stage_pc = "loop"
    /\ current = "update_component_config"
    /\ IF tool_idx > NumTools
       THEN stage_pc' = "call" /\ UNCHANGED <<tool_idx, attempts>>
       ELSE /\ NextIteration
            /\ attempts' = IF selected(Tools[tool_idx])
                           THEN <<[op |-> "config create", name |-> 0, ok |-> TRUE]>>
                           ELSE <<>>
    /\ UNCHANGED <<vars, task, started, config_entries, tool_items, item_idx,
                   is_success, failed_tools, task_raised, task_exit>>

\* execute_deployment, one tool: the token, then _execute_deployment, which
\* returns True, returns False or raises.
ExecuteDeploymentTool ==
    /\ stage_pc = "loop"
    /\ current = "execute_deployment"
    /\ IF tool_idx > NumTools
       THEN stage_pc' = "call"
            /\ UNCHANGED <<tool_idx, attempts, failed_tools, task_raised, task_exit>>
       ELSE IF ~selected(Tools[tool_idx])
       THEN NextIteration
            /\ UNCHANGED <<attempts, failed_tools, task_raised, task_exit>>
       ELSE \E res \in ExecuteDeploymentResults :
            /\ attempts' = <<[op |-> "deployment", name |-> 0, ok |-> (res = "True")]>>
            /\ IF res = "raised"
               THEN /\ task_raised' = TRUE
                    /\ task_exit' = 1
                    /\ stage_pc' = "done"
                    /\ UNCHANGED <<tool_idx, failed_tools>>
               ELSE IF res = "False"
               THEN ReportFailure /\ task_raised' = task_raised
               ELSE NextIteration
                    /\ UNCHANGED <<failed_tools, task_raised, task_exit>>
    /\ UNCHANGED <<vars, task, started, config_entries, tool_items, item_idx,
                   is_success>>

\* update_webservice, one tool: if webservice := webservices.get(tool_name)
WebserviceTool ==
    /\ stage_pc = "loop"
    /\ current = "update_webservice"
    /\ IF tool_idx > NumTools
       THEN stage_pc' = "call"
            /\ UNCHANGED <<tool_idx, attempts, failed_tools, task_exit>>
       ELSE IF ~selected(Tools[tool_idx])
       THEN NextIteration /\ UNCHANGED <<attempts, failed_tools, task_exit>>
       ELSE \E configured \in BOOLEAN, exited \in ExitStatuses :
            IF ~configured
            THEN NextIteration
                 /\ attempts' = <<>>
                 /\ UNCHANGED <<failed_tools, task_exit>>
            ELSE LET a == ensure_kubernetes_object(
                              WebServiceConfig_from_values(Tools[tool_idx]),
                              exited, "") IN
                 /\ attempts' = <<a>>
                 /\ IF ~a.ok
                    THEN ReportFailure
                    ELSE NextIteration /\ UNCHANGED <<failed_tools, task_exit>>
    /\ UNCHANGED <<vars, task, started, config_entries, tool_items, item_idx,
                   is_success, task_raised>>

\* update_static_files, outer loop.
StaticFilesTool ==
    /\ stage_pc = "loop"
    /\ current = "update_static_files"
    /\ IF tool_idx > NumTools
       THEN /\ stage_pc' = "call"
            /\ UNCHANGED <<tool_idx, config_entries, tool_items, item_idx,
                           is_success, attempts>>
       ELSE IF ~selected(Tools[tool_idx])
       THEN /\ NextIteration
            /\ UNCHANGED <<config_entries, tool_items, item_idx, is_success,
                           attempts>>
       ELSE \E entries \in StaticFileConfigs :
            /\ config_entries' = entries
            /\ tool_items' = [m \in 1..Len(entries) |->
                                StaticFile_from_values(entries[m])]
            /\ attempts' = <<>>
            /\ item_idx' = 1
            /\ is_success' = TRUE
            /\ IF Len(entries) > 0
               THEN stage_pc' = "files" /\ tool_idx' = tool_idx
               ELSE NextIteration
    /\ UNCHANGED <<vars, task, started, failed_tools, task_raised, task_exit>>

\* is_success &= _ensure_static_file(c, tool_name, static_file)
StaticFilesEnsure ==
    /\ stage_pc = "files"
    /\ item_idx <= Len(tool_items)
    /\ \E exited \in ExitStatuses :
        LET a == ensure_static_file(tool_items[item_idx], exited) IN
        /\ attempts' = Append(attempts, a)
        /\ is_success' = (is_success /\ a.ok)
        /\ item_idx' = item_idx + 1
    /\ UNCHANGED <<vars, task, started, stage_pc, tool_idx, config_entries,
                   tool_items, failed_tools, task_raised, task_exit>>

\* update_static_files after the inner loop.
StaticFilesReport ==
    /\ stage_pc = "files"
    /\ item_idx > Len(tool_items)
    /\ IF ~is_success
       THEN ReportFailure
       ELSE NextIteration /\ UNCHANGED <<failed_tools, task_exit>>
    /\ UNCHANGED <<vars, task, started, config_entries, tool_items, item_idx,
                   is_success, attempts, task_raised>>

DeployNext ==
    \/ CallNext
    \/ NetworkPoliciesTool
    \/ NetworkPoliciesEnsure
    \/ NetworkPoliciesReport
    \/ ComponentConfigTool
    \/ ExecuteDeploymentTool
    \/ WebserviceTool
    \/ StaticFilesTool
    \/ StaticFilesEnsure
    \/ StaticFilesReport

DeploySpec == DeployInit /\ [][DeployNext]_allVars

\* The task is one sequential thread: whatever statement is next, runs.
FairDeploySpec == DeploySpec /\ WF_allVars(DeployNext)

StageTypeOK ==
    /\ stage_pc \in {"call", "loop", "policies", "files", "done"}
    /\ tool_idx \in 1..(NumTools + 1)
    /\ Len(started) <= Len(deploy_stages)
    /\ Len(attempts) <= MaxItems
    /\ task_exit \in {-1, 0, 1}

\* ------------------------------------------------------------ vocabulary
Is2xx(code) == 200 <= code /\ code < 300
IsErrorStatus(code) == 400 <= code /\ code < 600
InProgress == {"pending", "running"}
AllInProgress(s) == \A k \in 1..Len(s) : s[k] \in InProgress
ProgressThenSuccess(s) ==
    /\ Len(s) >= 1
    /\ s[Len(s)] = "successful"
    /\ \A k \in 1..(Len(s) - 1) : s[k] \in InProgress

\* The spec's three results, read off the return value and the 409 message.
Outcome ==
    IF ret = "True" THEN "Success"
    ELSE IF ret = "False"
    THEN (IF "already in progress" \in printed THEN "Rejected" ELSE "Failed")
    ELSE "none"

\* _execute_deployment is between its first and its last statement.
Polling == pc \in {"poll", "status", "sleep"}

\* ---------------------------------------------------------------- C1
\* C1: if Start answers 409, the controller issues no poll and ends with
\* the non-fatal result Rejected (returns False), not with a raised error.
C1_Start409Rejected ==
    start_r.code = 409 =>
        /\ raised = NoError
        /\ ret = "False"
        /\ pollCalls = <<>>

\* ---------------------------------------------------------------- C2
\* C2: if a poll answers 409, first or after any number of pending/running
\* polls, the controller polls no more, raises nothing and ends Rejected.
C2_Poll409Rejected ==
    /\ [](poll_r.code = 409 =>
            /\ raised = NoError
            /\ pc \notin {"poll", "sleep"}
            /\ (pc /= "status" => ret = "False" /\ Outcome = "Rejected"))
    /\ [][poll_r.code = 409 /\ pc /= "loop" =>
            pollCalls' = pollCalls /\ sleeps' = sleeps]_vars

C2_Witness ==
    /\ poll_r.code = 409
    /\ Len(pollCalls) >= 2
    /\ pc = "returned"
    /\ ret = "False"

\* ---------------------------------------------------------------- C3
\* C3 as stated: every status that is neither 2xx nor 409 (1xx and 3xx
\* included), from Start or from Poll, ends in a fatal error carrying it.
C3_AnyNon2xxRaises ==
    /\ (start_r.code /= 0 /\ ~Is2xx(start_r.code) /\ start_r.code /= 409) =>
            (raised.type = "HTTPError" /\ raised.code = start_r.code)
    /\ (poll_r.code /= 0 /\ ~Is2xx(poll_r.code) /\ poll_r.code /= 409) =>
            (raised.type = "HTTPError" /\ raised.code = poll_r.code)

\* C3 amended: every 4xx or 5xx status other than 409, from Start or from
\* Poll, ends in a fatal error carrying the status code, and no poll follows.
C3_ErrorStatusRaises ==
    /\ []((IsErrorStatus(start_r.code) /\ start_r.code /= 409) =>
            /\ raised.type = "HTTPError"
            /\ raised.code = start_r.code
            /\ pc = "exited"
            /\ exit_code = 1
            /\ pollCalls = <<>>)
    /\ []((IsErrorStatus(poll_r.code) /\ poll_r.code /= 409) =>
            /\ raised.type = "HTTPError"
            /\ raised.code = poll_r.code
            /\ pc = "exited"
            /\ exit_code = 1)
    /\ [][raised /= NoError => (calls' = calls)]_vars

C3_Witness ==
    /\ poll_r.code = 500
    /\ raised = HTTPError(500, "Server Error")
    /\ Len(pollCalls) >= 2

\* ---------------------------------------------------------------- C4
\* C4: after an accepted Start, n >= 0 pending/running answers followed by
\* one `successful` give Success after exactly n+1 polls: the loop neither
\* ends before `successful` nor polls after it.
C4_SuccessAfterNPlusOnePolls ==
    /\ (ProgressThenSuccess(statuses) /\ pc /= "status") =>
            /\ ret = "True"
            /\ raised = NoError
            /\ Len(pollCalls) = Len(statuses)
            /\ sleeps = Len(statuses) - 1
            /\ pc \in {"returned", "loop", "exited"}
    /\ (statuses /= <<>> /\ AllInProgress(statuses) /\ raised = NoError) =>
            (Polling /\ ret = "none")
    /\ \A k \in 1..(Len(statuses) - 1) : statuses[k] \in InProgress

C4_Witness ==
    /\ statuses = <<"running", "running", "successful">>
    /\ Len(pollCalls) = 3
    /\ ret = "True"
    /\ pc = "returned"

\* ---------------------------------------------------------------- C5
\* C5 as stated: Success only if the last poll returned a 2xx response whose
\* status is exactly `successful`.
C5_SuccessOnly2xxSuccessful ==
    ret = "True" => (Is2xx(poll_r.code) /\ poll_r.body = "successful")

\* C5 amended: Success only if the last poll returned a response whose code
\* is not 4xx/5xx (2xx is not required) and whose status is exactly
\* `successful`, after a Start that returned a deploy_id.
C5_SuccessOnlySuccessful ==
    ret = "True" =>
        /\ ~IsErrorStatus(poll_r.code)
        /\ poll_r.body = "successful"
        /\ pollCalls /= <<>>
        /\ statuses[Len(statuses)] = "successful"
        /\ deploy_id /= None
        /\ raised = NoError

C5_Witness ==
    /\ ret = "True"
    /\ poll_r = [code |-> 200, body |-> "successful"]
    /\ Len(pollCalls) = 2

\* ---------------------------------------------------------------- C6
\* C6: a 2xx poll answer whose status is none of pending, running,
\* successful ends the loop at that poll: no further poll, no sleep, Failed.
UnrecognisedStatus ==
    /\ Is2xx(poll_r.code)
    /\ poll_r.body \notin {"pending", "running", "successful", Malformed}

C6_UnknownStatusFails ==
    /\ [](UnrecognisedStatus =>
            /\ raised = NoError
            /\ pc \notin {"poll", "sleep"}
            /\ sleeps = Len(pollCalls) - 1
            /\ (pc /= "status" => ret = "False" /\ Outcome = "Failed"))
    /\ [][UnrecognisedStatus /\ pc /= "loop" =>
            pollCalls' = pollCalls /\ sleeps' = sleeps]_vars

C6_Witness ==
    /\ poll_r = [code |-> 200, body |-> "bogus"]
    /\ Len(pollCalls) = 2
    /\ sleeps = 1
    /\ ret = "False"
    /\ pc = "returned"

\* ---------------------------------------------------------------- C7
\* C7: every pending/running answer is followed by one sleep and another
\* poll, so the controller is never terminal while the remote keeps
\* answering pending/running; any other answer (another status, a 409, an
\* error) is eventually followed by the controller's end.
OtherAnswer ==
    /\ pollCalls /= <<>>
    /\ ~(raised = NoError /\ get_deployment_status(poll_r).value \in InProgress)

C7_UnboundedPolling ==
    /\ [][pc = "status" /\ deployment_status \in InProgress =>
            pc' = "sleep" /\ ret' = "none"]_vars
    /\ [][pc = "sleep" => pc' = "poll" /\ sleeps' = sleeps + 1]_vars
    /\ [](statuses /= <<>> /\ AllInProgress(statuses) /\ raised = NoError =>
            Polling)
    /\ [](pc = "poll" /\ raised = NoError => sleeps = Len(pollCalls))
    /\ (OtherAnswer ~> ~Polling)

C7_Witness ==
    /\ pc = "poll"
    /\ sleeps = 2
    /\ statuses = <<"pending", "running">>

\* ---------------------------------------------------------------- C8
\* C8: a token lookup that is empty and still empty after one creation
\* attempt stops token resolution (no second creation attempt), and Start
\* is never issued with an empty token.
C8_OneCreationAttempt ==
    /\ creates <= 1
    /\ \A k \in 1..Len(startCalls) : Truthy(startCalls[k].token)

\* ---------------------------------------------------------------- C9
\* C9: a terminal failure of one tool's deployment (Rejected, Failed or a
\* Start/Poll API error) ends the batch non-zero only in single-tool mode;
\* in all-tools mode every tool of the enumeration gets its attempt.
DeploymentFailure ==
    \/ ret = "False"
    \/ raised.type \in {"HTTPError", "BodyError"}

C9_AbortOnlyInSingleToolMode ==
    /\ (DeploymentFailure /\ exit_code = 1) => Truthy(TARGET_USER)
    /\ (DeploymentFailure /\ pc = "exited" /\ TARGET_USER = None) =>
            \A k \in 1..NumTools : result[Tools[k]] /= "not run"

\* --------------------------------------------------------------- C10
\* C10: one invocation issues exactly one Start, before every poll; a poll
\* is issued only after Start returned a deploy_id and carries that
\* deploy_id with the tool name and token given to Start; after the
\* terminal outcome no remote call is issued.
C10_CallDiscipline ==
    /\ [](Len(startCalls) <= 1)
    /\ [](pc \in {"poll", "status", "sleep", "returned"} => Len(startCalls) = 1)
    /\ [](pollCalls /= <<>> =>
            /\ Len(startCalls) = 1
            /\ start_deployment(start_r).raised = NoError
            /\ start_r.body \notin {None, Malformed}
            /\ \A k \in 1..Len(pollCalls) :
                /\ pollCalls[k].deploy_id = start_r.body
                /\ pollCalls[k].tool = startCalls[1].tool
                /\ pollCalls[k].token = startCalls[1].token)
    /\ [][Len(startCalls') > Len(startCalls) => pollCalls = <<>> /\ pollCalls' = <<>>]_vars
    /\ [][(pc \in {"returned", "exited"}) => (calls' = calls)]_vars

C10_Witness ==
    /\ Len(pollCalls) >= 2
    /\ pc = "returned"
    /\ deploy_id = "d2"
    /\ pollCalls[2].deploy_id = "d2"

\* --------------------------------------------------------------- C11
\* C11: for a selected tool update_network_policies attempts every
\* configured policy in list order, also after a failed one; a policy
\* flagged delete is deleted and never applied, any other is applied; the
\* tool is reported failed (exit 1 in single-tool mode) exactly when at
\* least one attempt returned failure.
InPolicies == current = "update_network_policies" /\ stage_pc = "policies"
SomeAttemptFailed == \E m \in 1..Len(attempts) : ~attempts[m].ok

C11_AllPoliciesAttempted ==
    /\ [](InPolicies =>
            /\ Len(attempts) = item_idx - 1
            /\ Len(attempts) <= Len(config_entries)
            /\ \A m \in 1..Len(attempts) :
                /\ attempts[m].name = config_entries[m].name
                /\ attempts[m].op = IF config_entries[m].delete = "true"
                                    THEN "delete" ELSE "apply"
            /\ is_success = ~SomeAttemptFailed)
    /\ [][InPolicies /\ stage_pc' /= "policies" =>
            /\ Len(attempts) = Len(config_entries)
            /\ attempts' = attempts
            /\ (<<"update_network_policies", Tools[tool_idx]>> \in failed_tools')
                    = SomeAttemptFailed
            /\ (task_exit' = 1) = (SomeAttemptFailed /\ Truthy(TARGET_USER))]_allVars

C11_Witness ==
    /\ current = "update_network_policies"
    /\ stage_pc = "loop"
    /\ TARGET_USER = None
    /\ <<"update_network_policies", "tool-a">> \in failed_tools
    /\ Len(attempts) = 2
    /\ attempts[1].op = "apply" /\ ~attempts[1].ok
    /\ attempts[2].op = "delete" /\ attempts[2].ok

\* --------------------------------------------------------------- C12
\* C12: deploy runs update_network_policies, update_component_config,
\* execute_deployment, update_webservice, update_static_files in this
\* order; in single-tool mode a failure reported for the target tool ends
\* the run with exit status 1 and no later stage starts; in all-tools mode
\* a reported failure (no raised error) keeps no later stage from running.
DeployOrder ==
    <<"update_network_policies", "update_component_config",
      "execute_deployment", "update_webservice", "update_static_files">>

IsPrefix(a, b) ==
    /\ Len(a) <= Len(b)
    /\ \A m \in 1..Len(a) : a[m] = b[m]

C12_StageOrder ==
    /\ [](task = "deploy" => IsPrefix(started, DeployOrder))
    /\ []((task = "deploy" /\ Truthy(TARGET_USER) /\ failed_tools /= {}) =>
            /\ stage_pc = "done"
            /\ task_exit = 1
            /\ failed_tools = {<<current, TARGET_USER>>})
    /\ [][task_exit = 1 => started' = started]_allVars
    /\ []((task = "deploy" /\ TARGET_USER = None /\ ~task_raised) =>
            /\ task_exit /= 1
            /\ (stage_pc = "done" => started = DeployOrder /\ task_exit = 0))
    /\ ((task = "deploy" /\ TARGET_USER = None /\ failed_tools /= {}) ~>
            (task_raised \/ started = DeployOrder))

C12_Witness ==
    /\ task = "deploy"
    /\ TARGET_USER = None
    /\ stage_pc = "done"
    /\ task_exit = 0
    /\ started = DeployOrder
    /\ <<"update_network_policies", "tool-a">> \in failed_tools
    /\ <<"execute_deployment", "tool-b">> \in failed_tools

====
